---------------------------- MODULE Spec2Model ----------------------------
(***************************************************************************)
(* A model of beetsplug/mbsync.py: the MusicBrainz identifier check, the   *)
(* construction of the item -> TrackInfo mapping of an album, and the     *)
(* mbsync command (singletons pass, then albums pass).                    *)
(*                                                                         *)
(* Four specifications share the variables:                               *)
(*   SpecValid  re.match(MBID_REGEX, s) applied to bounded strings        *)
(*   SpecMap    construct_track_mapping applied to bounded albums         *)
(*   Spec       the command handler func(): singletons(), albums()        *)
(*   SpecTwice  the album path run twice on the same stored album         *)
(***************************************************************************)
EXTENDS Naturals, Sequences, FiniteSets

VARIABLES
    s,                  \* validator input: a string, as a tuple of characters
    verdict,            \* "unchecked", or what re.match(MBID_REGEX, s) said of s
    edits,              \* number of edits applied to s so far
    move, pretend, write,   \* the plugin's options (self.move, self.pretend, self.write)
    pc,                 \* position of the command handler
    albm,               \* the album being processed: [mb_albumid, albumartist]
    items,              \* list(albm.items()) (or the one singleton): in-memory records
    db,                 \* the persisted field values of items, by position
    dbAlbum,            \* the persisted album-level field of albm
    album_info,         \* hooks.album_for_mbid's answer: NoInfo or [albumartist, tracks]
    track_info,         \* hooks.track_for_mbid's answer for a singleton, or NoTrack
    releasetrack_index, \* dict release_track_id -> TrackInfo
    track_index,        \* defaultdict track_id -> list of TrackInfo
    mapping,            \* dict item (by position in items) -> TrackInfo
    reported,           \* what ui.show_model_changes returned for each item
    any_changed_item,   \* result of find_changed_items (position in items), or None
    structure_from,     \* the item update_album_structure was called with, or None
    txn,                \* TRUE while inside "with self.lib.transaction()"
    log,                \* the storage / file-system effects of the current entity
    outcome,            \* how the current entity's iteration ended
    run                 \* which run of the album path this is (SpecTwice)

validVars == <<s, verdict, edits>>
optVars   == <<move, pretend, write>>
mapVars   == <<album_info, track_info, releasetrack_index, track_index, mapping>>
runVars   == <<pc, albm, items, db, dbAlbum, reported, any_changed_item,
               structure_from, txn, log, outcome, run>>
vars      == <<validVars, optVars, mapVars, runVars>>

\* Python's None
None == "<None>"

\* Python truthiness of an identifier field: None and the empty string are falsy
Truthy(x) == x # None /\ x # ""

Rep(c, n) == [i \in 1..n |-> c]

(***************************************************************************)
(* Bounds of the model                                                     *)
(***************************************************************************)
MaxEdits  == 2      \* edits applied to a sample string (SpecValid)
MaxTracks == 2      \* TrackInfos of an album descriptor (SpecMap)
MaxItems  == 2      \* items of a library album (Spec, SpecTwice)

(***************************************************************************)
(* The identifier validator: re.match(MBID_REGEX, s)                       *)
(***************************************************************************)
DigitChars == {"0", "1", "2", "3", "4", "5", "6", "7", "8", "9"}
LowerChars == {"a", "b", "c", "d", "e", "f", "g", "h", "i", "j", "k", "l", "m",
               "n", "o", "p", "q", "r", "s", "t", "u", "v", "w", "x", "y", "z"}
UpperChars == {"A", "B", "C", "D", "E", "F", "G", "H", "I", "J", "K", "L", "M",
               "N", "O", "P", "Q", "R", "S", "T", "U", "V", "W", "X", "Y", "Z"}
\* \d and \w of Python's re (restricted to ASCII)
ClassD == DigitChars
ClassW == DigitChars \cup LowerChars \cup UpperChars \cup {"_"}
HexChars == DigitChars \cup {"a", "b", "c", "d", "e", "f"}
                       \cup {"A", "B", "C", "D", "E", "F"}

\* the repetition counts of the five groups of MBID_REGEX
GroupLens == <<8, 4, 4, 4, 12>>

RECURSIVE RegexAtoms(_)
\* MBID_REGEX as a flat list of atoms: "g" is one (\d|\w), "-" is the literal
RegexAtoms(k) ==
    IF k > Len(GroupLens) THEN <<>>
    ELSE Rep("g", GroupLens[k])
           \o (IF k < Len(GroupLens) THEN <<"-">> ELSE <<>>)
           \o RegexAtoms(k + 1)

MBID_REGEX == RegexAtoms(1)

AtomMatches(atom, c) ==
    IF atom = "g" THEN (c \in ClassD \/ c \in ClassW) ELSE c = atom

\* re.match(regex, str): the pattern must match at the start of str; nothing
\* is required of what follows the match
ReMatch(regex, str) ==
    /\ Len(str) >= Len(regex)
    /\ \A i \in 1..Len(regex) : AtomMatches(regex[i], str[i])

\* the shape the validator is specified to accept: exactly five
\* hyphen-separated groups of 8, 4, 4, 4 and 12 hexadecimal digits
IsHexGroupedShape(str) ==
    /\ Len(str) = Len(MBID_REGEX)
    /\ \A i \in 1..Len(str) :
          IF MBID_REGEX[i] = "-" THEN str[i] = "-" ELSE str[i] \in HexChars

\* "f2f97163-c32a-4f1a-bc2f-0b4b4e4c8b1a"
SampleMbid ==
    <<"f","2","f","9","7","1","6","3","-","c","3","2","a","-","4","f","1","a","-",
      "b","c","2","f","-","0","b","4","b","4","e","4","c","8","b","1","a">>
\* "not-an-id"
SampleNotAnId == <<"n","o","t","-","a","n","-","i","d">>

\* characters an edit may put into a string
EditChars == {"0", "a", "F", "g", "Z", "_", "-", " "}

ValidStart ==
    /\ s \in {SampleMbid, SampleNotAnId}
    /\ verdict = "unchecked"
    /\ edits = 0

ReplaceChar ==
    /\ edits < MaxEdits
    /\ \E i \in 1..Len(s), c \in EditChars :
          /\ c # s[i]
          /\ s' = [s EXCEPT ![i] = c]
    /\ verdict' = "unchecked"
    /\ edits' = edits + 1

AppendChar ==
    /\ edits < MaxEdits
    /\ \E c \in EditChars : s' = Append(s, c)
    /\ verdict' = "unchecked"
    /\ edits' = edits + 1

PrependChar ==
    /\ edits < MaxEdits
    /\ \E c \in EditChars : s' = <<c>> \o s
    /\ verdict' = "unchecked"
    /\ edits' = edits + 1

DropLastChar ==
    /\ edits < MaxEdits
    /\ Len(s) > 0
    /\ s' = SubSeq(s, 1, Len(s) - 1)
    /\ verdict' = "unchecked"
    /\ edits' = edits + 1

\* the test of lines 86 and 174: re.match(MBID_REGEX, id)
Validate ==
    /\ verdict = "unchecked"
    /\ verdict' = IF ReMatch(MBID_REGEX, s) THEN "accepted" ELSE "rejected"
    /\ UNCHANGED <<s, edits>>

(***************************************************************************)
(* The track mapping of an album (albums(), lines 118-129, and             *)
(* construct_track_mapping)                                                *)
(***************************************************************************)
\* no TrackInfo: the loop of lines 160-164 ended without a break
NoTrack == [none |-> TRUE]

\* a TrackInfo; recording and release-track identifiers are opaque keys here
TrackInfoFor(tid, rtid, med, midx, idx) ==
    [track_id |-> tid, release_track_id |-> rtid, medium |-> med,
     medium_index |-> midx, index |-> idx, title |-> idx]

\* releasetrack_index[track_info.release_track_id] = track_info, in album
\* order: a later TrackInfo with the same key replaces an earlier one
BuildReleaseTrackIndex(tracks) ==
    [k \in {tracks[i].release_track_id : i \in 1..Len(tracks)} |->
        LET last == CHOOSE i \in 1..Len(tracks) :
                       /\ tracks[i].release_track_id = k
                       /\ \A j \in 1..Len(tracks) :
                             tracks[j].release_track_id = k => j <= i
        IN  tracks[last]]

\* track_index[track_info.track_id].append(track_info), in album order
BuildTrackIndex(tracks) ==
    [k \in {tracks[i].track_id : i \in 1..Len(tracks)} |->
        SelectSeq(tracks, LAMBDA t : t.track_id = k)]

\* track_index is a defaultdict(list): a missing key reads as the empty list
Candidates(tindex, key) ==
    IF key \in DOMAIN tindex THEN tindex[key] ELSE <<>>

RECURSIVE FirstPositionMatch(_, _, _)
\* the loop of lines 160-164: the first candidate at the item's disc and track
FirstPositionMatch(candidates, item, k) ==
    IF k > Len(candidates) THEN NoTrack
    ELSE IF /\ candidates[k].medium_index = item.track
            /\ candidates[k].medium = item.disc
         THEN candidates[k]
         ELSE FirstPositionMatch(candidates, item, k + 1)

\* the condition of lines 150-151
UseReleaseTrack(item, rindex) ==
    /\ Truthy(item.mb_releasetrackid)
    /\ item.mb_releasetrackid \in DOMAIN rindex

\* a variant of MapByRecording that takes the first candidate without looking
\* at disc and track
MapByRecordingNoTieBreak(item, tindex) ==
    LET candidates == Candidates(tindex, item.mb_trackid)
    IN  IF Len(candidates) >= 1 THEN candidates[1] ELSE NoTrack

\* the else branch, lines 154-164
MapByRecording(item, tindex) ==
    LET candidates == Candidates(tindex, item.mb_trackid)
    IN  IF Len(candidates) = 1 THEN candidates[1]
        ELSE FirstPositionMatch(candidates, item, 1)

\* a variant of MapItem that prefers the recording MBID to the release track MBID
MapItemRecordingFirst(item, rindex, tindex) ==
    IF MapByRecording(item, tindex) # NoTrack
    THEN MapByRecording(item, tindex)
    ELSE IF UseReleaseTrack(item, rindex)
         THEN rindex[item.mb_releasetrackid]
         ELSE NoTrack

\* what one iteration of the loop of line 149 puts in mapping for item
\* (NoTrack: nothing)
MapItem(item, rindex, tindex) ==
    IF UseReleaseTrack(item, rindex)
    THEN rindex[item.mb_releasetrackid]
    ELSE MapByRecording(item, tindex)

\* mapping, keyed by the item's position in items
construct_track_mapping(its, rindex, tindex) ==
    [i \in {j \in 1..Len(its) : MapItem(its[j], rindex, tindex) # NoTrack} |->
        MapItem(its[i], rindex, tindex)]

\* the album descriptors and items construct_track_mapping is applied to
TrackIds        == {"r1", "r2"}
ReleaseTrackIds == {None, "t1", "t2"}
Positions       == {<<1, 1>>, <<1, 2>>, <<2, 1>>}     \* <<disc, track on disc>>

TrackShapes == TrackIds \X ReleaseTrackIds \X Positions

TrackLists ==
    UNION {{[i \in 1..n |-> TrackInfoFor(f[i][1], f[i][2], f[i][3][1], f[i][3][2], i)] :
               f \in [1..n -> TrackShapes]} : n \in 0..MaxTracks}

ItemFor(tid, rtid, disc, track, title, albumartist, path) ==
    [mb_trackid |-> tid, mb_releasetrackid |-> rtid, disc |-> disc,
     track |-> track, title |-> title, albumartist |-> albumartist,
     path |-> path]

\* lib.directory, and the two places a file can be
LibraryDirectory == <<"lib">>
InsidePath  == <<"lib", "album", "track">>
OutsidePath == <<"ext", "track">>

MapItems ==
    {ItemFor(tid, rtid, p[1], p[2], 0, 0, InsidePath) :
        tid \in {"", "r1", "r2"}, rtid \in {"", "t1", "t2"}, p \in Positions}

NoInfo == [found |-> FALSE]
NoAlbum == [mb_albumid |-> <<>>, albumartist |-> 0]
NoItem == 0

IdleValid == s = <<>> /\ verdict = "unchecked" /\ edits = 0
IdleOptions == move = FALSE /\ pretend = FALSE /\ write = FALSE
IdleMap ==
    /\ album_info = NoInfo
    /\ track_info = NoTrack
    /\ releasetrack_index = <<>>
    /\ track_index = <<>>
    /\ mapping = <<>>
IdleRun ==
    /\ albm = NoAlbum
    /\ dbAlbum = 0
    /\ reported = <<>>
    /\ any_changed_item = NoItem
    /\ structure_from = NoItem
    /\ txn = FALSE
    /\ log = <<>>
    /\ outcome = "none"
    /\ run = 1

MapInit ==
    /\ IdleValid /\ IdleOptions /\ IdleRun
    /\ pc = "map_index"
    /\ \E tracks \in TrackLists :
          album_info = [found |-> TRUE, albumartist |-> 1, tracks |-> tracks]
    /\ track_info = NoTrack
    /\ releasetrack_index = <<>>
    /\ track_index = <<>>
    /\ mapping = <<>>
    /\ \E it \in MapItems : items = <<it>>
    /\ db = items

\* lines 121-125
MapBuildIndexes ==
    /\ pc = "map_index"
    /\ releasetrack_index' = BuildReleaseTrackIndex(album_info.tracks)
    /\ track_index' = BuildTrackIndex(album_info.tracks)
    /\ pc' = "map_construct"
    /\ UNCHANGED <<validVars, optVars, album_info, track_info, mapping, albm,
                   items, db, dbAlbum, reported, any_changed_item,
                   structure_from, txn, log, outcome, run>>

\* lines 127-129
MapConstruct ==
    /\ pc = "map_construct"
    /\ mapping' = construct_track_mapping(items, releasetrack_index, track_index)
    /\ pc' = "map_done"
    /\ UNCHANGED <<validVars, optVars, album_info, track_info,
                   releasetrack_index, track_index, albm, items, db, dbAlbum,
                   reported, any_changed_item, structure_from, txn, log,
                   outcome, run>>

MapNext == MapBuildIndexes \/ MapConstruct

SpecMap == MapInit /\ [][MapNext]_vars

ValidNext ==
    \/ (ReplaceChar /\ UNCHANGED <<optVars, mapVars, runVars>>)
    \/ (AppendChar /\ UNCHANGED <<optVars, mapVars, runVars>>)
    \/ (PrependChar /\ UNCHANGED <<optVars, mapVars, runVars>>)
    \/ (DropLastChar /\ UNCHANGED <<optVars, mapVars, runVars>>)
    \/ (Validate /\ UNCHANGED <<optVars, mapVars, runVars>>)

ValidInit ==
    /\ ValidStart /\ IdleOptions /\ IdleMap /\ IdleRun
    /\ items = <<>> /\ db = <<>> /\ pc = "validate"

SpecValid == ValidInit /\ [][ValidNext]_vars

(***************************************************************************)
(* The command: func() runs singletons(), then albums()                    *)
(***************************************************************************)
\* "zzzzzzzz-zzzz-zzzz-zzzz-zzzzzzzzzzzz"
SampleWordId ==
    Rep("z", 8) \o <<"-">> \o Rep("z", 4) \o <<"-">> \o Rep("z", 4) \o <<"-">>
      \o Rep("z", 4) \o <<"-">> \o Rep("z", 12)

\* the identifiers library records carry (mb_trackid of a singleton,
\* mb_albumid of an album): none, malformed, well-formed, accepted by \w only
SampleIds == {<<>>, SampleNotAnId, SampleMbid, SampleWordId}

\* one effect on the storage or on the files, and whether the transaction of
\* the current entity was open when it happened
Ev(op, target) == [op |-> op, target |-> target, in_txn |-> txn]

\* util.ancestry(path): the directories above path
ancestry(path) == {SubSeq(path, 1, k) : k \in 0..(Len(path) - 1)}

\* the test of line 212 on a path
InLibrary(path) == LibraryDirectory \in ancestry(path)

\* ui.show_model_changes(item): whether the in-memory record differs from
\* the persisted one
show_model_changes(item, stored) == item # stored

\* beets.plugins.apply_item_changes(lib, item, move, pretend, write), on the
\* state st = [items, db, log] and the item at position i
apply_item_changes(st, i, mv, pr, wr) ==
    IF pr THEN st
    ELSE LET st1 == [st EXCEPT !.db[i] = st.items[i],
                               !.log = Append(@, Ev("store_item", i))]
             st2 == IF wr
                    THEN [st1 EXCEPT !.log = Append(@, Ev("write_tags", i))]
                    ELSE st1
         IN  IF mv
             THEN [st2 EXCEPT !.items[i].path = InsidePath,
                              !.db[i].path = InsidePath,
                              !.log = Append(@, Ev("move_item", i))]
             ELSE st2

\* autotag.apply_item_metadata(item, track_info)
apply_item_metadata(item, info) ==
    [item EXCEPT !.title = info.title]

\* autotag.apply_metadata(album_info, mapping): the mapped items take the
\* fields of their TrackInfo and of the album; the others are left alone
apply_metadata(info, map, its) ==
    [i \in 1..Len(its) |->
        IF i \in DOMAIN map
        THEN [its[i] EXCEPT !.title = map[i].title,
                            !.albumartist = info.albumartist]
        ELSE its[i]]

\* a variant of IdSkipped without the regular expression test
IdSkippedNoRegex(id, found) ==
    \/ Len(id) = 0
    \/ ~found

\* the three tests of singletons() (lines 80-97) and of validate_album:
\* the identifier is there, it passes the regular expression, it resolves
IdSkipped(id, found) ==
    \/ Len(id) = 0
    \/ ~ReMatch(MBID_REGEX, id)
    \/ ~found

\* validate_album(albumid, album_formatted)
validate_album(albumid, info) ==
    IF IdSkipped(albumid, info.found) THEN NoInfo ELSE info

RECURSIVE FindLoop(_, _, _, _)
\* the loop of lines 192-198, from position i on: rep is any_changed_item,
\* flags what show_model_changes has returned so far
FindLoop(st, i, rep, flags) ==
    IF i > Len(st.items) THEN [st |-> st, rep |-> rep, flags |-> flags]
    ELSE LET item_changed == show_model_changes(st.items[i], st.db[i])
         IN  FindLoop(IF item_changed
                      THEN apply_item_changes(st, i, move, pretend, write)
                      ELSE st,
                      i + 1,
                      IF item_changed THEN i ELSE rep,
                      Append(flags, item_changed))

RECURSIVE FindLoopUnapplied(_, _, _, _)
\* a variant of the loop that notes the changed items without applying them
FindLoopUnapplied(st, i, rep, flags) ==
    IF i > Len(st.items) THEN [st |-> st, rep |-> rep, flags |-> flags]
    ELSE LET item_changed == show_model_changes(st.items[i], st.db[i])
         IN  FindLoopUnapplied(st, i + 1, IF item_changed THEN i ELSE rep,
                               Append(flags, item_changed))

\* a variant of find_changed_items that leaves the changed items unapplied
find_changed_items_unapplied(st) ==
    LET r == FindLoopUnapplied(st, 1, 1, <<>>)
        changed == \E k \in 1..Len(r.flags) : r.flags[k]
    IN  [r EXCEPT !.rep = IF changed THEN r.rep ELSE NoItem]

\* find_changed_items(items), for a non-empty items; items[0] of line 189
\* raises IndexError on an empty list
find_changed_items(st) ==
    LET r == FindLoop(st, 1, 1, <<>>)
        changed == \E k \in 1..Len(r.flags) : r.flags[k]
    IN  [r EXCEPT !.rep = IF changed THEN r.rep ELSE NoItem]

\* what the queries of lines 78 and 110 can return, one record at a time
Paths == {InsidePath, OutsidePath}

SingletonShapes ==
    {ItemFor(id, "", 1, 1, title, 0, path) :
        id \in SampleIds, title \in {1, 2}, path \in Paths}

\* the recording hooks.track_for_mbid finds
FoundTrack == TrackInfoFor("r1", None, 1, 1, 1)

\* the release hooks.album_for_mbid finds: two tracks on one disc
FoundAlbum ==
    [found |-> TRUE, albumartist |-> 1,
     tracks |-> <<TrackInfoFor("r1", "t1", 1, 1, 1),
                  TrackInfoFor("r2", "t2", 1, 2, 2)>>]

\* items of a library album: with the release track id of the first track,
\* with the recording id of the second only, or with neither
AlbumItemShapes ==
    {ItemFor(k[1], k[2], 1, 1, title, albumartist, path) :
        k \in {<<"r1", "t1">>, <<"r2", "">>, <<"", "">>},
        title \in {1, 2}, albumartist \in {0, 1}, path \in Paths}

AlbumItemLists == UNION {[1..n -> AlbumItemShapes] : n \in 0..MaxItems}

\* func(): the options come from the command line and the configuration
Init ==
    /\ IdleValid /\ IdleMap /\ IdleRun
    /\ move \in BOOLEAN /\ pretend \in BOOLEAN /\ write \in BOOLEAN
    /\ items = <<>> /\ db = <<>>
    /\ pc = "singletons"

\* singletons(), lines 78-97: the next item of the query is skipped
SingletonSkip ==
    /\ pc = "singletons"
    /\ \E item \in SingletonShapes, found \in BOOLEAN :
          /\ IdSkipped(item.mb_trackid, found)
          /\ items' = <<item>>
          /\ db' = <<item>>
    /\ track_info' = NoTrack
    /\ log' = <<>>
    /\ outcome' = "skipped"
    /\ pc' = "s_done"
    /\ UNCHANGED <<validVars, optVars, albm, dbAlbum, album_info,
                   releasetrack_index, track_index, mapping, reported,
                   any_changed_item, structure_from, txn, run>>

\* singletons(), lines 78-97: the next item of the query has a recording
SingletonLoad ==
    /\ pc = "singletons"
    /\ \E item \in SingletonShapes, found \in BOOLEAN :
          /\ ~IdSkipped(item.mb_trackid, found)
          /\ items' = <<item>>
          /\ db' = <<item>>
          /\ track_info' = IF found THEN FoundTrack ELSE NoTrack
    /\ log' = <<>>
    /\ outcome' = "none"
    /\ pc' = "s_enter"
    /\ UNCHANGED <<validVars, optVars, albm, dbAlbum, album_info,
                   releasetrack_index, track_index, mapping, reported,
                   any_changed_item, structure_from, txn, run>>

\* lines 100-101
SingletonEnter ==
    /\ pc = "s_enter"
    /\ txn' = TRUE
    /\ log' = Append(log, Ev("begin", 0))
    /\ items' = <<apply_item_metadata(items[1], track_info)>>
    /\ pc' = "s_changes"
    /\ UNCHANGED <<validVars, optVars, mapVars, albm, db, dbAlbum, reported,
                   any_changed_item, structure_from, outcome, run>>

\* lines 102-103, and the end of the with block
SingletonChanges ==
    /\ pc = "s_changes"
    /\ LET st == apply_item_changes([items |-> items, db |-> db, log |-> log],
                                    1, move, pretend, write)
       IN  /\ items' = st.items
           /\ db' = st.db
           /\ log' = Append(st.log, Ev("commit", 0))
    /\ txn' = FALSE
    /\ outcome' = "applied"
    /\ pc' = "s_done"
    /\ UNCHANGED <<validVars, optVars, mapVars, albm, dbAlbum, reported,
                   any_changed_item, structure_from, run>>

\* line 78: the iteration is over (by a continue or at the end of the body)
\* and the loop turns to the rest of the query
SingletonNext ==
    /\ pc = "s_done"
    /\ pc' = "singletons"
    /\ items' = <<>> /\ db' = <<>>
    /\ track_info' = NoTrack
    /\ log' = <<>>
    /\ outcome' = "none"
    /\ UNCHANGED <<validVars, optVars, albm, dbAlbum, album_info,
                   releasetrack_index, track_index, mapping, reported,
                   any_changed_item, structure_from, txn, run>>

\* line 72: the query is exhausted, singletons() returns and albums() starts
SingletonsEnd ==
    /\ pc = "singletons"
    /\ pc' = "albums"
    /\ UNCHANGED <<validVars, optVars, mapVars, albm, items, db, dbAlbum,
                   reported, any_changed_item, structure_from, txn, log,
                   outcome, run>>

\* albums(), lines 110-114: validate_album returns None, the album is skipped
AlbumSkip ==
    /\ pc = "albums"
    /\ \E id \in SampleIds, found \in BOOLEAN :
          /\ validate_album(id, IF found THEN FoundAlbum ELSE NoInfo) = NoInfo
          /\ albm' = [mb_albumid |-> id, albumartist |-> 0]
    /\ dbAlbum' = 0
    /\ items' = <<>> /\ db' = <<>>
    /\ album_info' = NoInfo
    /\ releasetrack_index' = <<>>
    /\ track_index' = <<>>
    /\ mapping' = <<>>
    /\ reported' = <<>>
    /\ any_changed_item' = NoItem
    /\ structure_from' = NoItem
    /\ log' = <<>>
    /\ outcome' = "skipped"
    /\ run' = 1
    /\ pc' = "a_done"
    /\ UNCHANGED <<validVars, optVars, track_info, txn>>

\* albums(), lines 110-129: the album resolves; its items are loaded, the two
\* indexes and the mapping are built
AlbumLoad ==
    /\ pc = "albums"
    /\ \E id \in SampleIds, its \in AlbumItemLists :
          LET info == validate_album(id, FoundAlbum)
              rindex == BuildReleaseTrackIndex(info.tracks)
              tindex == BuildTrackIndex(info.tracks)
          IN  /\ info # NoInfo
              /\ albm' = [mb_albumid |-> id, albumartist |-> 0]
              /\ album_info' = info
              /\ items' = its
              /\ db' = its
              /\ releasetrack_index' = rindex
              /\ track_index' = tindex
              /\ mapping' = construct_track_mapping(its, rindex, tindex)
    /\ dbAlbum' = 0
    /\ reported' = <<>>
    /\ any_changed_item' = NoItem
    /\ structure_from' = NoItem
    /\ log' = <<>>
    /\ outcome' = "none"
    /\ run' = 1
    /\ pc' = "a_enter"
    /\ UNCHANGED <<validVars, optVars, track_info, txn>>

\* lines 133-134: the transaction is entered, the metadata applied in memory
AlbumEnter ==
    /\ pc = "a_enter"
    /\ txn' = TRUE
    /\ log' = Append(log, Ev("begin", 0))
    /\ items' = apply_metadata(album_info, mapping, items)
    /\ pc' = "a_find"
    /\ UNCHANGED <<validVars, optVars, mapVars, albm, db, dbAlbum, reported,
                   any_changed_item, structure_from, outcome, run>>

\* a variant of the test of line 140 that forgets pretend
ShouldUpdateAlbumAlways == TRUE

\* line 140
ShouldUpdateAlbum == ~pretend

\* line 135, find_changed_items on an empty list: items[0] raises IndexError,
\* which nothing catches; the with block is left and the command ends
FindChangedItemsRaises ==
    /\ pc = "a_find"
    /\ items = <<>>
    /\ txn' = FALSE
    /\ outcome' = "IndexError"
    /\ pc' = "crashed"
    /\ UNCHANGED <<validVars, optVars, mapVars, albm, items, db, dbAlbum,
                   reported, any_changed_item, structure_from, log, run>>

\* lines 135-140: find_changed_items, and the two tests on its result
FindChangedItems ==
    /\ pc = "a_find"
    /\ items # <<>>
    /\ LET r == find_changed_items([items |-> items, db |-> db, log |-> log])
       IN  /\ items' = r.st.items
           /\ db' = r.st.db
           /\ log' = r.st.log
           /\ reported' = r.flags
           /\ any_changed_item' = r.rep
           /\ pc' = IF r.rep # NoItem /\ ShouldUpdateAlbum
                    THEN "a_structure" ELSE "a_exit"
    /\ UNCHANGED <<validVars, optVars, mapVars, albm, dbAlbum, structure_from,
                   txn, outcome, run>>

\* a variant of update_album_structure that copies the keys without albm.store()
UpdateAlbumStructureUnstored ==
    /\ pc = "a_structure"
    /\ albm' = [albm EXCEPT !.albumartist = items[any_changed_item].albumartist]
    /\ structure_from' = any_changed_item
    /\ pc' = "a_art"
    /\ UNCHANGED <<validVars, optVars, mapVars, items, db, dbAlbum, reported,
                   any_changed_item, txn, log, outcome, run>>

\* line 141: update_album_structure(albm, any_changed_item)
UpdateAlbumStructure ==
    /\ pc = "a_structure"
    /\ albm' = [albm EXCEPT !.albumartist = items[any_changed_item].albumartist]
    /\ dbAlbum' = items[any_changed_item].albumartist
    /\ structure_from' = any_changed_item
    /\ log' = Append(log, Ev("store_album", 0))
    /\ pc' = "a_art"
    /\ UNCHANGED <<validVars, optVars, mapVars, items, db, reported,
                   any_changed_item, txn, outcome, run>>

\* a variant of the condition of line 212 that forgets self.move
ShouldMoveAlbumAnyway(its) == InLibrary(its[1].path)

\* the condition of line 212
ShouldMoveAlbum(its) == move /\ InLibrary(its[1].path)

\* line 142: move_album_art(albm, items, album_formatted); albm.move() takes
\* the art and the items to the album's place in the library
MoveAlbumArt ==
    /\ pc = "a_art"
    /\ IF ShouldMoveAlbum(items)
       THEN /\ log' = Append(log, Ev("move_album", 0))
            /\ items' = [i \in 1..Len(items) |-> [items[i] EXCEPT !.path = InsidePath]]
            /\ db' = [i \in 1..Len(db) |-> [db[i] EXCEPT !.path = InsidePath]]
       ELSE UNCHANGED <<log, items, db>>
    /\ pc' = "a_exit"
    /\ UNCHANGED <<validVars, optVars, mapVars, albm, dbAlbum, reported,
                   any_changed_item, structure_from, txn, outcome, run>>

\* the end of the with block of line 133 (also reached by the continue of
\* line 138): the transaction is committed, the loop goes on
ExitTransaction ==
    /\ pc = "a_exit"
    /\ txn' = FALSE
    /\ log' = Append(log, Ev("commit", 0))
    /\ outcome' = IF any_changed_item = NoItem THEN "nochange"
                  ELSE IF structure_from = NoItem THEN "reported"
                  ELSE "updated"
    /\ pc' = "a_done"
    /\ UNCHANGED <<validVars, optVars, mapVars, albm, items, db, dbAlbum,
                   reported, any_changed_item, structure_from, run>>

\* line 110: the iteration is over (by a continue or at the end of the body)
\* and the loop turns to the rest of the query
AlbumNext ==
    /\ pc = "a_done"
    /\ pc' = "albums"
    /\ albm' = NoAlbum
    /\ dbAlbum' = 0
    /\ items' = <<>> /\ db' = <<>>
    /\ album_info' = NoInfo
    /\ releasetrack_index' = <<>>
    /\ track_index' = <<>>
    /\ mapping' = <<>>
    /\ reported' = <<>>
    /\ any_changed_item' = NoItem
    /\ structure_from' = NoItem
    /\ log' = <<>>
    /\ outcome' = "none"
    /\ run' = 1
    /\ UNCHANGED <<validVars, optVars, track_info, txn>>

\* the query is exhausted: albums() returns, and func() with it
AlbumsEnd ==
    /\ pc = "albums"
    /\ pc' = "done"
    /\ UNCHANGED <<validVars, optVars, mapVars, albm, items, db, dbAlbum,
                   reported, any_changed_item, structure_from, txn, log,
                   outcome, run>>

Next ==
    \/ SingletonSkip
    \/ SingletonLoad
    \/ SingletonEnter
    \/ SingletonChanges
    \/ SingletonNext
    \/ SingletonsEnd
    \/ AlbumSkip
    \/ AlbumLoad
    \/ AlbumEnter
    \/ FindChangedItemsRaises
    \/ FindChangedItems
    \/ UpdateAlbumStructure
    \/ MoveAlbumArt
    \/ ExitTransaction
    \/ AlbumNext
    \/ AlbumsEnd

Spec == Init /\ [][Next]_vars

\* The same album processed a second time: the query returns the album and
\* its items as they are stored, and the resolver gives the same release
AlbumAgain ==
    /\ pc = "a_done"
    /\ run = 1
    /\ outcome \in {"nochange", "reported", "updated"}
    /\ run' = 2
    /\ albm' = [albm EXCEPT !.albumartist = dbAlbum]
    /\ items' = db
    /\ mapping' = construct_track_mapping(db, releasetrack_index, track_index)
    /\ reported' = <<>>
    /\ any_changed_item' = NoItem
    /\ structure_from' = NoItem
    /\ log' = <<>>
    /\ outcome' = "none"
    /\ pc' = "a_enter"
    /\ UNCHANGED <<validVars, optVars, album_info, track_info,
                   releasetrack_index, track_index, db, dbAlbum, txn>>

TwiceInit ==
    /\ IdleValid /\ IdleMap /\ IdleRun
    /\ move \in BOOLEAN /\ pretend \in BOOLEAN /\ write \in BOOLEAN
    /\ items = <<>> /\ db = <<>>
    /\ pc = "albums"

TwiceNext ==
    \/ AlbumSkip
    \/ AlbumLoad
    \/ AlbumEnter
    \/ FindChangedItemsRaises
    \/ FindChangedItems
    \/ UpdateAlbumStructure
    \/ MoveAlbumArt
    \/ ExitTransaction
    \/ AlbumAgain
    \/ AlbumNext
    \/ AlbumsEnd

SpecTwice == TwiceInit /\ [][TwiceNext]_vars

(***************************************************************************)
(* Properties of the validator and of the mapping                          *)
(***************************************************************************)
\* C1: the validator accepts a string if and only if the string is exactly
\* five hyphen-separated groups of 8, 4, 4, 4 and 12 hexadecimal digits
C1_AcceptsExactlyHexShape ==
    verdict # "unchecked" => ((verdict = "accepted") <=> IsHexGroupedShape(s))

\* the TrackInfos of the album, in album order, recorded under recording id
RecordingCandidates(item) ==
    SelectSeq(album_info.tracks, LAMBDA t : t.track_id = item.mb_trackid)

HasReleaseTrack(item) ==
    /\ item.mb_releasetrackid \notin {None, ""}
    /\ \E k \in 1..Len(album_info.tracks) :
          album_info.tracks[k].release_track_id = item.mb_releasetrackid

AtPosition(t, item) == t.medium = item.disc /\ t.medium_index = item.track

\* C2: an item whose release track id is a key of the release-track index is
\* mapped to the TrackInfo stored under that key, whatever its recording id
\* selects and whatever its disc and track are
C2_ReleaseTrackPriority ==
    pc = "map_done" =>
        \A i \in 1..Len(items) :
            HasReleaseTrack(items[i]) =>
                /\ i \in DOMAIN mapping
                /\ mapping[i] = releasetrack_index[items[i].mb_releasetrackid]
                /\ mapping[i].release_track_id = items[i].mb_releasetrackid
                /\ \E k \in 1..Len(album_info.tracks) : album_info.tracks[k] = mapping[i]

\* a mapped item with a release track id in the index, whose recording id
\* selects only other TrackInfos, none at the position of the chosen one
C2_Witness ==
    /\ pc = "map_done"
    /\ HasReleaseTrack(items[1])
    /\ 1 \in DOMAIN mapping
    /\ Len(RecordingCandidates(items[1])) >= 1
    /\ \A k \in 1..Len(RecordingCandidates(items[1])) :
          RecordingCandidates(items[1])[k] # mapping[1]
    /\ ~AtPosition(mapping[1], items[1])

\* C3: an item without a usable release track id is mapped to its only
\* recording candidate if there is exactly one; with two or more, to the first
\* candidate in album order at the item's (disc, track), and to nothing when
\* there is none; with no candidate, to nothing
C3_FallbackDisambiguation ==
    pc = "map_done" =>
        \A i \in 1..Len(items) :
            ~HasReleaseTrack(items[i]) =>
                LET c == RecordingCandidates(items[i])
                    hits == {k \in 1..Len(c) : AtPosition(c[k], items[i])}
                IN  /\ Len(c) = 0 => i \notin DOMAIN mapping
                    /\ Len(c) = 1 => (i \in DOMAIN mapping /\ mapping[i] = c[1])
                    /\ (Len(c) >= 2 /\ hits = {}) => i \notin DOMAIN mapping
                    /\ (Len(c) >= 2 /\ hits # {}) =>
                          /\ i \in DOMAIN mapping
                          /\ \E k \in hits :
                                /\ \A j \in hits : k <= j
                                /\ mapping[i] = c[k]

\* two candidates share the item's recording id; the first is elsewhere, the
\* second is at the item's disc and track, and the item is mapped to the second
C3_Witness ==
    /\ pc = "map_done"
    /\ ~HasReleaseTrack(items[1])
    /\ Len(RecordingCandidates(items[1])) = 2
    /\ ~AtPosition(RecordingCandidates(items[1])[1], items[1])
    /\ AtPosition(RecordingCandidates(items[1])[2], items[1])
    /\ 1 \in DOMAIN mapping
    /\ mapping[1] = RecordingCandidates(items[1])[2]

(***************************************************************************)
(* Properties of the command                                               *)
(***************************************************************************)
\* the effects that persist a record, write tags or move files
EffectOps == {"store_item", "write_tags", "move_item", "store_album", "move_album"}

Effects(l) == {k \in 1..Len(l) : l[k].op \in EffectOps}

AlbumMoves(l) == {k \in 1..Len(l) : l[k].op = "move_album"}

SomeReported == \E k \in 1..Len(reported) : reported[k]

\* find_changed_items has been called for the current album
FindCalled ==
    \/ pc \in {"a_structure", "a_art", "a_exit", "crashed"}
    \/ pc = "a_done" /\ outcome # "skipped"

\* the positions at which the command is working on a loaded entity
Working == {"s_enter", "s_changes", "a_enter", "a_find", "a_structure",
            "a_art", "a_exit"}

\* C4: for every sequence of an album's tracks find_changed_items returns
\* None if and only if no track is reported changed, and otherwise the last
\* track reported changed; the album's keys are then copied from that track
C4_RepresentativeIsLastChanged ==
    FindCalled =>
        /\ pc # "crashed"
        /\ Len(reported) = Len(items)
        /\ (any_changed_item = NoItem) <=> ~SomeReported
        /\ any_changed_item # NoItem =>
              /\ any_changed_item \in 1..Len(items)
              /\ reported[any_changed_item]
              /\ \A j \in 1..Len(items) : j > any_changed_item => ~reported[j]
        /\ structure_from # NoItem =>
              /\ structure_from = any_changed_item
              /\ albm.albumartist = items[any_changed_item].albumartist

\* C5: with pretend set, no step persists a track or album record, writes
\* tags or moves a file, whatever changes are detected
C5_PretendIsolation ==
    [][pretend =>
          /\ Effects(log') = {}
          /\ structure_from' = NoItem
          /\ pc \in Working =>
                /\ db' = db
                /\ dbAlbum' = dbAlbum
                /\ Len(items') = Len(items)
                /\ \A i \in 1..Len(items) : items'[i].path = items[i].path]_vars

\* an album has been processed under pretend, and changes were reported
C5_Witness ==
    /\ pretend
    /\ pc = "a_done"
    /\ outcome = "reported"
    /\ SomeReported
    /\ move /\ write

\* C6 as stated: under every option setting the second run over the same
\* album finds no change and has no effect
C6_SecondRunNoChange ==
    (run = 2 /\ FindCalled) =>
        /\ pc # "crashed"
        /\ any_changed_item = NoItem
        /\ Effects(log) = {}

\* C6, amended: the second run over the same album persists nothing, writes
\* no tags and moves nothing; unless pretend is set it reports no changed
\* track, and find_changed_items returns None whenever it returns
C6_SecondRunNoEffect ==
    run = 2 =>
        /\ Effects(log) = {}
        /\ structure_from = NoItem
        /\ (FindCalled /\ ~pretend) =>
              /\ pc # "crashed"
              /\ ~SomeReported
              /\ any_changed_item = NoItem

\* the first run updated the album, the second has ended with no change
C6_Witness ==
    /\ run = 2
    /\ pc = "a_done"
    /\ ~pretend
    /\ dbAlbum = 1
    /\ outcome = "nochange"
    /\ Len(items) = 2

\* C7: an entity whose identifier is missing, does not pass the validator or
\* is not found is skipped: no transaction is opened, nothing of it is
\* overwritten, stored or moved, and the loop goes on; only entities that
\* pass the three tests are worked on
C7_SkipExcludesEntity ==
    /\ outcome = "skipped" =>
          /\ pc \in {"s_done", "a_done"}
          /\ ~txn
          /\ log = <<>>
          /\ items = db
          /\ structure_from = NoItem
          /\ albm.albumartist = dbAlbum
    /\ (pc \in {"s_enter", "s_changes"} \/ (pc = "s_done" /\ outcome # "skipped")) =>
          /\ Len(items[1].mb_trackid) > 0
          /\ ReMatch(MBID_REGEX, items[1].mb_trackid)
          /\ track_info # NoTrack
    /\ (pc \in {"a_enter", "a_find", "a_structure", "a_art", "a_exit", "crashed"}
          \/ (pc = "a_done" /\ outcome # "skipped")) =>
          /\ Len(albm.mb_albumid) > 0
          /\ ReMatch(MBID_REGEX, albm.mb_albumid)
          /\ album_info # NoInfo

\* an album with a malformed identifier has been skipped
C7_Witness ==
    /\ pc = "a_done"
    /\ outcome = "skipped"
    /\ albm.mb_albumid = SampleNotAnId

\* C8: no library content and no resolver answer makes the command abort
C8_RunNeverAborts == pc # "crashed"

=============================================================================
